---------------------------- MODULE Spec2Model ----------------------------
(***************************************************************************)
(* A model of src/app/app.py (YTD): the Tk handler download_url, the       *)
(* worker thread it starts (job), process_entry, and the state they share: *)
(* the Tk variables, the active_downloads map, the ttk styles and the      *)
(* output folder on disk.                                                  *)
(*                                                                         *)
(* Strings the code searches, splits or matches are sequences of           *)
(* one-character strings.  A position is 1-based and 0 stands for          *)
(* Python's -1 (not found).                                                *)
(*                                                                         *)
(* Spec is one download against every answer of the site, the recognizer,  *)
(* the converter and the file system, with Tk's callback queue between     *)
(* update_progress and the progress bar; SpecConc is MaxJobs concurrent    *)
(* downloads against the answers of QuietWorld, where the main loop runs   *)
(* each callback at once.  SpecTitle and SpecName are the title cleaning   *)
(* (app.py:350-358) and the file name (app.py:455-459) of process_entry on *)
(* their own, for every title put together from a few pieces; in the jobs  *)
(* a track is one value that stands for its artist and title.              *)
(***************************************************************************)
EXTENDS Integers, Sequences, FiniteSets, TLC

(***************************************************************************)
(* Bounds of the model.                                                    *)
(***************************************************************************)
\* number of submissions that start a worker thread
MaxJobs == 2
\* number of progress callbacks the Fetcher makes during one extract_info
MaxHooks == 2
\* number of pieces a video title or a track title is put together from
MaxPieces == 3
\* number of times the title cleaning is applied to one title
MaxCleanings == 2
\* number of callbacks that wait in Tk's queue at one time
MaxPending == 2

(***************************************************************************)
(* Characters and the texts the user types into the URL entry.             *)
(***************************************************************************)
Lower == {"a", "b", "c", "d", "e", "f", "g", "h", "i", "j", "k", "l", "m",
          "n", "o", "p", "q", "r", "s", "t", "u", "v", "w", "x", "y", "z"}
Upper == {"A", "B", "C", "D", "E", "F", "G", "H", "I", "J", "K", "L", "M",
          "N", "O", "P", "Q", "R", "S", "T", "U", "V", "W", "X", "Y", "Z"}
Digit == {"0", "1", "2", "3", "4", "5", "6", "7", "8", "9"}
Letter == Lower \cup Upper
\* [\w.-]
HostChar == Letter \cup Digit \cup {"_", ".", "-"}
\* \s
Space == {" "}

\* a.io/w?v=k
UrlVideo == <<"a", ".", "i", "o", "/", "w", "?", "v", "=", "k">>
\* a.io/w?v=k&list=p
UrlVideoInList == UrlVideo \o <<"&", "l", "i", "s", "t", "=", "p">>
\* http://b.io/q
UrlPlain == <<"h", "t", "t", "p", ":", "/", "/", "b", ".", "i", "o", "/", "q">>
\* "a io" (a blank inside), " " (blanks only), "a.i" (a one-letter suffix)
TextBlankInside == <<"a", " ", "i", "o">>
TextBlank == <<" ">>
TextShortTld == <<"a", ".", "i">>
\* the same video with a blank typed after it
TextPadded == UrlVideo \o <<" ">>

EntryTexts == {UrlVideo, UrlVideoInList, UrlPlain, TextPadded,
               <<>>, TextBlank, TextBlankInside, TextShortTld}
\* the texts among them that are URLs as typed
UrlTexts == {UrlVideo, UrlVideoInList, UrlPlain}

(***************************************************************************)
(* str.find, str.split(sep)[0], "in", str.strip                            *)
(***************************************************************************)
OccursAt(s, sub, p) ==
    /\ p >= 1
    /\ p + Len(sub) - 1 <= Len(s)
    /\ \A i \in 1..Len(sub) : s[p + i - 1] = sub[i]

\* s.find(sub, start): the lowest position >= start, 0 when there is none
Find(s, sub, start) ==
    LET hits == {p \in start..Len(s) : OccursAt(s, sub, p)}
    IN  IF hits = {} THEN 0
        ELSE CHOOSE p \in hits : \A q \in hits : p <= q

Contains(s, sub) == Find(s, sub, 1) # 0

\* s.split(sep)[0]
SplitFirst(s, sep) ==
    LET p == Find(s, sep, 1)
    IN  IF p = 0 THEN s ELSE SubSeq(s, 1, p - 1)

Strip(s) ==
    LET keep == {i \in 1..Len(s) : s[i] \notin Space}
    IN  IF keep = {} THEN <<>>
        ELSE LET lo == CHOOSE i \in keep : \A k \in keep : i <= k
                 hi == CHOOSE i \in keep : \A k \in keep : i >= k
             IN  SubSeq(s, lo, hi)

ListSep == <<"&", "l", "i", "s", "t", "=">>

\* url_pattern.match(url), app.py:167-169, the pattern being
\*   ^(https?://)?([\w.-]+)\.([a-zA-Z]{2,})(:[0-9]+)?(/\S*)?$
\* a is the length of the scheme, i the position of the dot before the
\* suffix, j the end of the suffix, p the end of the port.
AllIn(s, lo, hi, set) == \A x \in lo..hi : s[x] \in set

SchemeLens(s) ==
    {0} \cup (IF OccursAt(s, <<"h", "t", "t", "p", ":", "/", "/">>, 1)
              THEN {7} ELSE {})
        \cup (IF OccursAt(s, <<"h", "t", "t", "p", "s", ":", "/", "/">>, 1)
              THEN {8} ELSE {})

UrlPatternMatch(s) ==
    LET n == Len(s)
    IN  \E a \in SchemeLens(s) : \E i \in (a + 2)..n : \E j \in (i + 2)..n :
          /\ s[i] = "."
          /\ AllIn(s, a + 1, i - 1, HostChar)
          /\ AllIn(s, i + 1, j, Letter)
          /\ \E p \in j..n :
                /\ \/ p = j
                   \/ /\ p >= j + 2
                      /\ s[j + 1] = ":"
                      /\ AllIn(s, j + 2, p, Digit)
                /\ \/ p = n
                   \/ /\ s[p + 1] = "/"
                      /\ \A x \in (p + 2)..n : s[x] \notin Space

\* the guard of app.py:170 with the pattern test left out
ValidUrl_NoPattern(url) == url # <<>>

\* the guard of app.py:170, on the stripped text
ValidUrl(url) == url # <<>> /\ UrlPatternMatch(url)

(***************************************************************************)
(* get_url_id, app.py:179-191                                              *)
(***************************************************************************)
get_url_id(url) ==
    LET q == Find(url, <<"?", "v", "=">>, 1)
        v == Find(url, <<"v", "=">>, 1)
        start == IF q # 0 THEN q + 3 ELSE v + 2
    IN  IF q = 0 /\ v = 0 THEN url
        ELSE LET end == Find(url, ListSep, start)
             IN  IF end = 0 THEN SubSeq(url, start, Len(url))
                 ELSE SubSeq(url, start, end - 1)

(***************************************************************************)
(* The title cleaning and the file name of process_entry.                  *)
(***************************************************************************)
\* s.replace(old, new): the occurrences of old, left to right, not overlapping
RECURSIVE ReplaceAll(_, _, _)
ReplaceAll(s, old, new) ==
    IF old = <<>> \/ Len(s) < Len(old) THEN s
    ELSE IF OccursAt(s, old, 1)
         THEN new \o ReplaceAll(SubSeq(s, Len(old) + 1, Len(s)), old, new)
         ELSE <<s[1]>> \o ReplaceAll(Tail(s), old, new)

\* s.strip(chars)
StripChars(s, chars) ==
    LET keep == {i \in 1..Len(s) : s[i] \notin chars}
    IN  IF keep = {} THEN <<>>
        ELSE LET lo == CHOOSE i \in keep : \A k \in keep : i <= k
                 hi == CHOOSE i \in keep : \A k \in keep : i >= k
             IN  SubSeq(s, lo, hi)

\* the characters of app.py:358
TitleEdge == {" ", "-", "_", "?", "!", ".", ",", ";", ":", "(", ")", "[", "]",
              "{", "}", "'", "\"", "\\"}

Official == <<"(", "O", "f", "f", "i", "c", "i", "a", "l">>
Visual == <<"(", "V", "i", "s", "u", "a", "l", ")">>

\* app.py:350-351
Slashless(s) == ReplaceAll(s, <<"/">>, <<"_">>)

\* app.py:352-358: title, from raw_title
clean_title(uploader_, raw_title_) ==
    LET t1 == IF Contains(raw_title_, uploader_) \/ uploader_ = <<>>
              THEN Strip(ReplaceAll(raw_title_, uploader_, <<>>))
              ELSE raw_title_
        t2 == Strip(SplitFirst(t1, <<"[">>))
        t3 == Strip(SplitFirst(t2, Official))
        t4 == Strip(ReplaceAll(t3, Visual, <<>>))
    IN  StripChars(t4, TitleEdge)

\* app.py:455-459: new_name
NewName(artist_, song_title_) ==
    LET safe_artist == ReplaceAll(artist_, <<"/">>, <<"_">>)
        safe_title == ReplaceAll(song_title_, <<"/">>, <<"_">>)
        closed == IF Contains(safe_title, <<"(">>) /\ ~Contains(safe_title, <<")">>)
                  THEN safe_title \o <<")">> ELSE safe_title
    IN  safe_artist \o <<" ", "-", " ">> \o closed \o <<".", "m", "4", "a">>

\* the texts put together from at most n of the pieces
RECURSIVE Joined(_, _)
Joined(pieces, n) ==
    IF n = 0 THEN {<<>>}
    ELSE Joined(pieces, n - 1)
         \cup {t \o p : t \in Joined(pieces, n - 1), p \in pieces}

\* entry["title"] and entry["uploader"] of the videos
TitlePieces == {<<"a">>, <<"b">>, <<" ">>, <<"-">>, <<"/">>, <<"[">>,
                Official, Visual}
EntryTitles == Joined(TitlePieces, MaxPieces)
EntryUploaders == {<<"a", "b">>, <<"a", "/", "b">>}

\* the "title" and "subtitle" of the tracks the recognizer returns
SongPieces == {<<"a">>, <<" ">>, <<"/">>, <<"(">>, <<")">>}
SongTitles == Joined(SongPieces, MaxPieces)
Artists == {<<"A">>, <<"A", "/", "B">>}

(***************************************************************************)
(* The world outside the program: the site, the recognizer, the formats.   *)
(***************************************************************************)
\* the combobox offers m4a, mp3, flac, wav (app.py:145); the native
\* container and one format that needs the converter are modelled
Formats == {"m4a", "mp3"}
\* ids of the media items the site serves
EntryIds == {"k", "q"}
\* "<artist> - <title>" of the tracks the recognizer knows
Tracks == {"s1", "s2"}
\* Python's None, where a string is expected (final_filename, filename)
None == "None"
\* a playlist member yt-dlp could not extract (ignoreerrors: True)
NoEntry == None
\* Python's None, where a message or a path is expected
NoMsg == <<>>
NoPath == [dir |-> "", stem |-> "", ext |-> ""]
\* recognize_track's answers without a usable track: {} and {"track": {}}
NoResult == "{}"
EmptyTrack == "{track: {}}"

\* the media item a URL without playlist context points at
VideoAt(u) == IF Contains(u, <<"v", "=", "k">>) THEN "k" ELSE "q"

\* what extract_info can return for a playlist: its "entries" list
PlaylistResults == {<<>>, <<NoEntry, "q">>, <<"k", "q">>}
\* the same, for playlists of which at most one member can be extracted
ShortPlaylistResults == {<<>>, <<NoEntry, "q">>}

\* info dicts extract_info can return for url_local, other than None, the
\* playlist's "entries" being one of lists
Infos(url_local, lists) ==
    IF Contains(url_local, ListSep)
    THEN {[entries |-> es] : es \in lists}
    ELSE {[id |-> VideoAt(url_local)]}

\* app.py:277-281
EntriesOf(info) ==
    IF "entries" \in DOMAIN info
    THEN SelectSeq(info.entries, LAMBDA e : e # NoEntry)
    ELSE <<info.id>>

\* the ids an info names: the files the Fetcher may have written
IdsOf(info) == {EntriesOf(info)[i] : i \in 1..Len(EntriesOf(info))}

\* app.py:262-264 and ydl.prepare_filename(entry), app.py:343
OutDir(url_local) == IF Contains(url_local, ListSep) THEN "out/p" ELSE "out"
DownloadedPath(url_local, e) == [dir |-> OutDir(url_local), stem |-> e, ext |-> "m4a"]
\* downloaded_path.with_suffix(".temp.mp3"), app.py:366
TempPath(path) == [path EXCEPT !.ext = "temp.mp3"]
\* app.py:455-460: new_path for a recognized track
NewPath(path, track) == [path EXCEPT !.stem = track]
\* result_path.with_suffix("." + selected_format), app.py:292-294
ConvertedPath(path, fmt) == [path EXCEPT !.ext = fmt]

\* the disk: a function from the paths that exist to what the file holds
Put(d, p, what) == [x \in DOMAIN d \cup {p} |-> IF x = p THEN what ELSE d[x]]
Remove(d, p) == [x \in DOMAIN d \ {p} |-> d[x]]
Exists(d, p) == p \in DOMAIN d
\* Path.rename(src, dst): dst is replaced
Rename(d, src, dst) == Put(Remove(d, src), dst, d[src])
\* the Fetcher writes the raw download of every id in ids
RECURSIVE PutAll(_, _, _)
PutAll(d, url_local, ids) ==
    IF ids = {} THEN d
    ELSE LET e == CHOOSE x \in ids : TRUE
         IN  PutAll(Put(d, DownloadedPath(url_local, e), "raw"), url_local, ids \ {e})

\* the progress callbacks of the Fetcher, app.py:250-258: d["status"],
\* d.get("downloaded_bytes", 0) and total_bytes or total_bytes_estimate
\* (0: neither is known)
HookEvents ==
    {[status |-> "finished", downloaded |-> 0, total |-> 0]}
    \cup {[status |-> "downloading", downloaded |-> dl, total |-> t] :
             dl \in {0, 1, 2}, t \in {0, 2}}

\* int(downloaded / total * 100), app.py:255
Percent(downloaded, total) == (downloaded * 100) \div total

(***************************************************************************)
(* State.                                                                  *)
(***************************************************************************)
Jobs == 1..MaxJobs

VARIABLES
    \* Tk state, owned by the UI thread
    format_var,        \* self.format_var
    allow_playlist,    \* self.allow_playlist
    dialog,            \* the modal message box on screen, or "none"
    active_downloads,  \* self.active_downloads: url_id -> widgets of a row
    styles,            \* ttk styles: row number of "bar<row>..." -> background
    nJobs,             \* worker threads started so far
    \* what the closures of one download_url call captured
    url, row,
    \* the worker thread of a job: where it is, and its locals
    pc, url_local, selected_format, hooks, entries, idx,
    result, result_path, final_filename,
    \* the selections on screen when download_url ran for the job, until the
    \* job has read format_var and allow_playlist itself
    submitted,
    \* what the job told the presentation layer
    progress,          \* the value of its latest update_progress call
    outcome,           \* its finish_bar calls, in order
    \* Tk's queue of after(0, ...) callbacks, and the value each bar shows
    after_queue, bar,
    \* the output folder
    disk,
    \* process_entry's locals of the title cleaning, app.py:350-358: what the
    \* entry holds, and how many times the cleaning was applied
    meta, uploader, raw_title, title, cleanings,
    \* process_entry's locals of the file name, app.py:407-459
    artist, song_title, new_name

vars == <<format_var, allow_playlist, dialog, active_downloads, styles, nJobs,
          url, row, pc, url_local, selected_format, hooks, entries, idx,
          result, result_path, final_filename, progress, outcome, disk,
          submitted, after_queue, bar,
          meta, uploader, raw_title, title, cleanings,
          artist, song_title, new_name>>

titleVars == <<meta, uploader, raw_title, title, cleanings>>
nameVars == <<artist, song_title, new_name>>
namerVars == <<titleVars, nameVars>>
shown == <<progress, after_queue, bar>>
jobVars == <<format_var, allow_playlist, dialog, active_downloads, styles,
             nJobs, url, row, pc, url_local, selected_format, hooks, entries,
             idx, result, result_path, final_filename, shown, outcome, disk,
             submitted>>

tkVars == <<format_var, allow_playlist, dialog, nJobs, url, row>>
locals == <<url_local, selected_format, hooks, entries, idx,
            result, result_path, final_filename>>
\* what the worker threads leave alone (but for the step that forgets submitted)
aside == <<namerVars, tkVars, submitted>>

\* no selection is remembered for a job
NoSelection == [format |-> None, playlist |-> FALSE]

\* no entry's title is being cleaned, no file name being made
NoMeta == [uploader |-> <<>>, title |-> <<>>]
NoTitle ==
    /\ meta = NoMeta
    /\ uploader = <<>>
    /\ raw_title = <<>>
    /\ title = <<>>
    /\ cleanings = 0
NoName ==
    /\ artist = <<>>
    /\ song_title = <<>>
    /\ new_name = <<>>

\* the application after __init__, app.py:104-162
InitJobs ==
    /\ format_var = "m4a"
    /\ allow_playlist = FALSE
    /\ dialog = "none"
    /\ active_downloads = <<>>
    /\ styles = <<>>
    /\ nJobs = 0
    /\ url = [j \in Jobs |-> <<>>]
    /\ row = [j \in Jobs |-> 0]
    /\ pc = [j \in Jobs |-> "unborn"]
    /\ url_local = [j \in Jobs |-> <<>>]
    /\ selected_format = [j \in Jobs |-> None]
    /\ hooks = [j \in Jobs |-> 0]
    /\ entries = [j \in Jobs |-> <<>>]
    /\ idx = [j \in Jobs |-> 0]
    /\ result = [j \in Jobs |-> NoResult]
    /\ result_path = [j \in Jobs |-> NoPath]
    /\ final_filename = [j \in Jobs |-> None]
    /\ progress = [j \in Jobs |-> 0]
    /\ outcome = [j \in Jobs |-> <<>>]
    /\ disk = <<>>
    /\ submitted = [j \in Jobs |-> NoSelection]
    /\ after_queue = <<>>
    /\ bar = [j \in Jobs |-> 0]

Init ==
    /\ InitJobs
    /\ NoTitle
    /\ NoName

(***************************************************************************)
(* The UI thread.                                                          *)
(***************************************************************************)
\* download_url, app.py:164-339, with text in the URL entry; cap bounds the
\* number of worker threads
DownloadUrl(text, cap) ==
    LET u == Strip(text)
    IN  /\ dialog = "none"
        /\ IF ~ValidUrl(u)
           THEN /\ dialog' = "Input Error"
                /\ UNCHANGED <<format_var, allow_playlist, active_downloads,
                               styles, nJobs, url, row, pc, locals, shown,
                               outcome, disk, namerVars, submitted>>
           ELSE /\ nJobs < cap
                /\ LET j == nJobs + 1
                       r == Cardinality(DOMAIN active_downloads)
                   IN  /\ nJobs' = j
                       /\ url' = [url EXCEPT ![j] = u]
                       /\ row' = [row EXCEPT ![j] = r]
                       /\ styles' = Put(styles, r, "#3385ff")
                       /\ active_downloads' =
                              Put(active_downloads, get_url_id(u),
                                  [label |-> j, progress |-> j, style |-> r,
                                   file_label |-> [job |-> 0, text |-> NoMsg]])
                       /\ progress' = [progress EXCEPT ![j] = 0]
                       /\ bar' = [bar EXCEPT ![j] = 0]
                       /\ submitted' = [submitted EXCEPT ![j] =
                              [format |-> format_var,
                               playlist |-> allow_playlist]]
                       /\ pc' = [pc EXCEPT ![j] = "start"]
                /\ UNCHANGED <<format_var, allow_playlist, dialog, locals,
                               outcome, disk, namerVars, after_queue>>

\* the user closes the message box of app.py:171
DismissDialog ==
    /\ dialog # "none"
    /\ dialog' = "none"
    /\ UNCHANGED <<format_var, allow_playlist, active_downloads, styles, nJobs,
                   url, row, pc, locals, shown, outcome, disk, namerVars, submitted>>

\* the user picks a format in the combobox, app.py:142-148
SelectFormat(f) ==
    /\ dialog = "none"
    /\ f # format_var
    /\ format_var' = f
    /\ UNCHANGED <<allow_playlist, dialog, active_downloads, styles, nJobs,
                   url, row, pc, locals, shown, outcome, disk, namerVars, submitted>>

\* the user toggles "Download Playlist", app.py:132-136
TogglePlaylist ==
    /\ dialog = "none"
    /\ allow_playlist' = ~allow_playlist
    /\ UNCHANGED <<format_var, dialog, active_downloads, styles, nJobs,
                   url, row, pc, locals, shown, outcome, disk, namerVars, submitted>>

\* the main loop runs the callback at the head of its queue, app.py:216-218:
\* progress.config(maximum=maxval, value=val) of the job that queued it
RunCallback ==
    /\ after_queue # <<>>
    /\ bar' = [bar EXCEPT ![Head(after_queue).job] = Head(after_queue).val]
    /\ after_queue' = Tail(after_queue)
    /\ UNCHANGED <<format_var, allow_playlist, dialog, active_downloads, styles,
                   nJobs, url, row, pc, locals, progress, outcome, disk,
                   namerVars, submitted>>

(***************************************************************************)
(* The worker thread of job j: job(url), app.py:240-337.                   *)
(***************************************************************************)
\* the update_progress calls of one step of job j, app.py:215-218, in order:
\* each hands a callback to Tk's queue.  With w.backlog = 0 the main loop is
\* idle and runs the callback at once; otherwise at most w.backlog callbacks
\* wait in the queue.
ProgressCalls(j, vals, w) ==
    /\ progress' = [progress EXCEPT ![j] = vals[Len(vals)]]
    /\ IF w.backlog = 0
       THEN /\ bar' = [bar EXCEPT ![j] = vals[Len(vals)]]
            /\ UNCHANGED after_queue
       ELSE /\ Len(after_queue) + Len(vals) <= w.backlog
            /\ after_queue' = after_queue \o
                   [i \in 1..Len(vals) |-> [job |-> j, val |-> vals[i]]]
            /\ UNCHANGED bar

\* update_progress(val)
UpdateProgress(j, val, w) == ProgressCalls(j, <<val>>, w)

Goto(j, label) == pc' = [pc EXCEPT ![j] = label]

\* finish_bar(success, filename, error_msg), app.py:223-238, after the
\* update_progress calls of before in the same step.  The style and the label
\* are set by the calling thread, not by a queued callback.
FinishBar(j, success, filename, error_msg, before, w) ==
    LET text == IF error_msg # NoMsg THEN error_msg
                ELSE IF filename # None THEN <<filename>> ELSE NoMsg
    IN  /\ styles' = [styles EXCEPT ![row[j]] =
                          IF success THEN "#4BB543" ELSE "#FF3333"]
        /\ ProgressCalls(j, before \o <<100>>, w)
        /\ active_downloads' =
               IF text # NoMsg
               THEN [active_downloads EXCEPT ![get_url_id(url[j])].file_label =
                         [job |-> j, text |-> text]]
               ELSE active_downloads
        /\ outcome' = [outcome EXCEPT ![j] =
                          Append(@, [success |-> success,
                                     filename |-> filename,
                                     error_msg |-> error_msg])]

\* job returns or dies: the thread ends and its locals are gone
Ended(j, label) ==
    /\ Goto(j, label)
    /\ url_local' = [url_local EXCEPT ![j] = <<>>]
    /\ selected_format' = [selected_format EXCEPT ![j] = None]
    /\ hooks' = [hooks EXCEPT ![j] = 0]
    /\ entries' = [entries EXCEPT ![j] = <<>>]
    /\ idx' = [idx EXCEPT ![j] = 0]
    /\ result' = [result EXCEPT ![j] = NoResult]
    /\ result_path' = [result_path EXCEPT ![j] = NoPath]
    /\ final_filename' = [final_filename EXCEPT ![j] = None]

\* the handlers of app.py:324-333: whatever process_entry raises
TaggingError(j, e, w) ==
    /\ FinishBar(j, FALSE, None, <<"Tagging Error", e>>, <<>>, w)
    /\ Ended(j, "done")

\* the handler of app.py:315-321
ConvertError(j, e, w) ==
    /\ FinishBar(j, FALSE, None, <<"Convert Error", e>>, <<>>, w)
    /\ Ended(j, "done")

\* the next entry of "for entry in entries", app.py:285
NextEntry(j) ==
    /\ idx' = [idx EXCEPT ![j] = @ + 1]
    /\ Goto(j, "loop")

\* app.py:241-245
JobBegin(j, w) ==
    /\ pc[j] = "start"
    /\ UpdateProgress(j, 5, w)
    /\ url_local' = [url_local EXCEPT ![j] =
                        IF ~allow_playlist THEN SplitFirst(url[j], ListSep)
                        ELSE url[j]]
    /\ Goto(j, "setup")
    /\ UNCHANGED <<aside, active_downloads, styles, outcome, disk,
                   selected_format, hooks, entries, idx, result, result_path,
                   final_filename>>

\* app.py:247-268
JobSetup(j, w) ==
    /\ pc[j] = "setup"
    /\ selected_format' = [selected_format EXCEPT ![j] = format_var]
    /\ UpdateProgress(j, 10, w)
    /\ submitted' = [submitted EXCEPT ![j] = NoSelection]
    /\ Goto(j, "fetch")
    /\ UNCHANGED <<namerVars, tkVars, active_downloads, styles, outcome, disk,
                   url_local, hooks, entries, idx, result, result_path,
                   final_filename>>

\* hook(d), app.py:250-258, called by the Fetcher during extract_info
FetchHook(j, d, w) ==
    /\ pc[j] = "fetch"
    /\ hooks[j] < MaxHooks
    /\ hooks' = [hooks EXCEPT ![j] = @ + 1]
    /\ IF d.status = "downloading"
       THEN IF d.total # 0
            THEN UpdateProgress(j, Percent(d.downloaded, d.total), w)
            ELSE UNCHANGED shown
       ELSE UpdateProgress(j, 90, w)
    /\ UNCHANGED <<aside, active_downloads, styles, outcome, disk, pc,
                   url_local, selected_format, entries, idx, result,
                   result_path, final_filename>>

\* extract_info raises, app.py:271-275 (the error box of app.py:274 opens
\* after finish_bar and holds up only this thread's return)
FetchRaise(j, w) ==
    /\ pc[j] = "fetch"
    /\ FinishBar(j, FALSE, None, <<"Download Error", "extract_info raised">>,
                 <<>>, w)
    /\ Ended(j, "done")
    /\ UNCHANGED <<aside, disk>>

\* extract_info returns None (a failure that ignoreerrors swallowed):
\* '"entries" in info' raises TypeError outside every try, app.py:277-281
FetchNone(j) ==
    /\ pc[j] = "fetch"
    /\ Ended(j, "crashed")
    /\ UNCHANGED <<aside, active_downloads, styles, outcome, disk, shown>>

\* extract_info returns info, having written the files of the ids in written;
\* app.py:270 and 277-283
FetchInfo(j, info, written) ==
    /\ pc[j] = "fetch"
    /\ disk' = PutAll(disk, url_local[j], written)
    /\ entries' = [entries EXCEPT ![j] = EntriesOf(info)]
    /\ idx' = [idx EXCEPT ![j] = 1]
    /\ final_filename' = [final_filename EXCEPT ![j] = None]
    /\ hooks' = [hooks EXCEPT ![j] = 0]
    /\ Goto(j, "loop")
    /\ UNCHANGED <<aside, active_downloads, styles, outcome, shown,
                   url_local, selected_format, result, result_path>>

\* the head of the loop, app.py:285-286, and its end, app.py:335-337
\* (error_occurred is False there: every handler that sets it returns)
Loop(j, w) ==
    /\ pc[j] = "loop"
    /\ IF idx[j] <= Len(entries[j])
       THEN /\ UpdateProgress(j, 90, w)
            /\ Goto(j, "pe_exists")
            /\ UNCHANGED <<active_downloads, styles, outcome, locals>>
       ELSE /\ FinishBar(j, TRUE, final_filename[j], NoMsg, <<100>>, w)
            /\ Ended(j, "done")
    /\ UNCHANGED <<aside, disk>>

(***************************************************************************)
(* process_entry(entry, ydl, update_progress), app.py:341-468, and the     *)
(* conversion that follows it in job, app.py:289-323.                      *)
(***************************************************************************)
\* downloaded_path of the entry being processed, app.py:343
downloaded_path(j) == DownloadedPath(url_local[j], entries[j][idx[j]])
temp_mp3_path(j) == TempPath(downloaded_path(j))

\* what job does with process_entry's return value p, app.py:288-323
Returned(j, p) ==
    /\ result_path' = [result_path EXCEPT ![j] = p]
    /\ IF p # NoPath /\ selected_format[j] # "m4a"
       THEN /\ Goto(j, "convert")
            /\ UNCHANGED <<idx, final_filename>>
       ELSE /\ NextEntry(j)
            /\ final_filename' =
                   IF p # NoPath THEN [final_filename EXCEPT ![j] = p.stem]
                   ELSE final_filename

\* app.py:344-363: the file is not there (return None), or on to recognition
PE_exists(j, w) ==
    /\ pc[j] = "pe_exists"
    /\ IF Exists(disk, downloaded_path(j))
       THEN /\ UpdateProgress(j, 92, w)
            /\ Goto(j, "pe_encode")
            /\ UNCHANGED <<idx, result_path, final_filename>>
       ELSE /\ Returned(j, NoPath)
            /\ UNCHANGED shown
    /\ UNCHANGED <<aside, active_downloads, styles, outcome, disk, url_local,
                   selected_format, hooks, entries, result>>

\* ffmpeg writes the temporary mp3, app.py:369-383
PE_encode_ok(j) ==
    /\ pc[j] = "pe_encode"
    /\ Exists(disk, downloaded_path(j))
    /\ disk' = Put(disk, temp_mp3_path(j), "mp3")
    /\ Goto(j, "pe_recognize")
    /\ UNCHANGED <<aside, active_downloads, styles, outcome, shown, locals>>

\* ffmpeg exits non-zero, with or without a partial file; app.py:390-394
PE_encode_fail(j, partial, w) ==
    /\ pc[j] = "pe_encode"
    /\ disk' = IF partial THEN Put(disk, temp_mp3_path(j), "partial") ELSE disk
    /\ UpdateProgress(j, 96, w)
    /\ result' = [result EXCEPT ![j] = NoResult]
    /\ Goto(j, "pe_cleanup")
    /\ UNCHANGED <<aside, active_downloads, styles, outcome, url_local,
                   selected_format, hooks, entries, idx, result_path,
                   final_filename>>

\* recognize_track returns r, app.py:386-388
PE_recognize_ok(j, r, w) ==
    /\ pc[j] = "pe_recognize"
    /\ Exists(disk, temp_mp3_path(j))
    /\ result' = [result EXCEPT ![j] = r]
    /\ UpdateProgress(j, 96, w)
    /\ Goto(j, "pe_cleanup")
    /\ UNCHANGED <<aside, active_downloads, styles, outcome, disk, url_local,
                   selected_format, hooks, entries, idx, result_path,
                   final_filename>>

\* recognize_track raises, app.py:390-394
PE_recognize_fail(j, w) ==
    /\ pc[j] = "pe_recognize"
    /\ result' = [result EXCEPT ![j] = NoResult]
    /\ UpdateProgress(j, 96, w)
    /\ Goto(j, "pe_cleanup")
    /\ UNCHANGED <<aside, active_downloads, styles, outcome, disk, url_local,
                   selected_format, hooks, entries, idx, result_path,
                   final_filename>>

\* the finally block, app.py:395-404; unlinked says whether unlink succeeds
PE_cleanup(j, unlinked) ==
    /\ pc[j] = "pe_cleanup"
    /\ disk' = IF Exists(disk, temp_mp3_path(j)) /\ unlinked
               THEN Remove(disk, temp_mp3_path(j)) ELSE disk
    /\ Goto(j, "pe_open")
    /\ UNCHANGED <<aside, active_downloads, styles, outcome, shown, locals>>

\* MP4(downloaded_path) and the check of the recognition result,
\* app.py:406-419; corrupt says that mutagen cannot read the container
PE_open(j, corrupt, w) ==
    /\ pc[j] = "pe_open"
    /\ IF corrupt \/ ~Exists(disk, downloaded_path(j))
       THEN TaggingError(j, "MP4 could not open the file", w)
       ELSE IF result[j] \in {NoResult, EmptyTrack}
       THEN TaggingError(j, "Shazam recognition failed: No track info returned.", w)
       ELSE /\ Goto(j, "pe_save")
            /\ UNCHANGED <<active_downloads, styles, outcome, shown, locals>>
    /\ UNCHANGED <<aside, disk>>

\* audio.save(), app.py:420-452 (a cover that cannot be fetched is skipped)
PE_save_ok(j) ==
    /\ pc[j] = "pe_save"
    /\ Exists(disk, downloaded_path(j))
    /\ disk' = Put(disk, downloaded_path(j), "tagged")
    /\ Goto(j, "pe_rename")
    /\ UNCHANGED <<aside, active_downloads, styles, outcome, shown, locals>>

PE_save_fail(j, w) ==
    /\ pc[j] = "pe_save"
    /\ TaggingError(j, "save failed", w)
    /\ UNCHANGED <<aside, disk>>

\* downloaded_path.rename(new_path) succeeds, app.py:454-465
PE_rename_ok(j) ==
    /\ pc[j] = "pe_rename"
    /\ Exists(disk, downloaded_path(j))
    /\ disk' = Rename(disk, downloaded_path(j), NewPath(downloaded_path(j), result[j]))
    /\ Returned(j, NewPath(downloaded_path(j), result[j]))
    /\ UNCHANGED <<aside, active_downloads, styles, outcome, shown,
                   url_local, selected_format, hooks, entries, result>>

\* the rename raises: process_entry returns None, app.py:466-468
PE_rename_fail(j) ==
    /\ pc[j] = "pe_rename"
    /\ Returned(j, NoPath)
    /\ UNCHANGED <<aside, active_downloads, styles, outcome, shown, disk,
                   url_local, selected_format, hooks, entries, result>>

\* ffmpeg converts result_path, app.py:296-312
Convert_ok(j) ==
    /\ pc[j] = "convert"
    /\ Exists(disk, result_path[j])
    /\ disk' = Put(disk, ConvertedPath(result_path[j], selected_format[j]), "converted")
    /\ Goto(j, "unlink")
    /\ UNCHANGED <<aside, active_downloads, styles, outcome, shown, locals>>

\* ffmpeg exits non-zero, with or without a partial file; app.py:315-321
Convert_fail(j, partial, w) ==
    /\ pc[j] = "convert"
    /\ disk' = IF partial
               THEN Put(disk, ConvertedPath(result_path[j], selected_format[j]), "partial")
               ELSE disk
    /\ ConvertError(j, "ffmpeg failed", w)
    /\ UNCHANGED aside

\* result_path.unlink() and final_filename, app.py:313-314
Unlink_ok(j) ==
    /\ pc[j] = "unlink"
    /\ Exists(disk, result_path[j])
    /\ disk' = Remove(disk, result_path[j])
    /\ final_filename' = [final_filename EXCEPT ![j] = result_path[j].stem]
    /\ NextEntry(j)
    /\ UNCHANGED <<aside, active_downloads, styles, outcome, shown,
                   url_local, selected_format, hooks, entries, result,
                   result_path>>

\* result_path.unlink() raises, app.py:315-321
Unlink_fail(j, w) ==
    /\ pc[j] = "unlink"
    /\ ConvertError(j, "unlink failed", w)
    /\ UNCHANGED <<aside, disk>>

(***************************************************************************)
(* The program.                                                            *)
(***************************************************************************)
\* the answers of the site, the recognizer, the converter, the file system
\* and the main loop that are explored: every one of them, with up to
\* MaxPending callbacks waiting; and a world where only the site, the
\* recognizer and the calls themselves fail, and no callback waits
World ==
    [lists |-> PlaylistResults, partial |-> BOOLEAN,
     answers |-> {NoResult, EmptyTrack} \cup Tracks,
     unlinked |-> BOOLEAN, corrupt |-> BOOLEAN, backlog |-> MaxPending]
QuietWorld ==
    [lists |-> ShortPlaylistResults, partial |-> {FALSE},
     answers |-> {NoResult, "s1"},
     unlinked |-> {TRUE}, corrupt |-> {FALSE}, backlog |-> 0]

Worker(j, w) ==
    \/ JobBegin(j, w)
    \/ JobSetup(j, w)
    \/ \E d \in HookEvents : FetchHook(j, d, w)
    \/ FetchRaise(j, w)
    \/ FetchNone(j)
    \/ \E info \in Infos(url_local[j], w.lists) : \E written \in SUBSET IdsOf(info) :
          FetchInfo(j, info, written)
    \/ Loop(j, w)
    \/ PE_exists(j, w)
    \/ PE_encode_ok(j)
    \/ \E partial \in w.partial : PE_encode_fail(j, partial, w)
    \/ \E r \in w.answers : PE_recognize_ok(j, r, w)
    \/ PE_recognize_fail(j, w)
    \/ \E unlinked \in w.unlinked : PE_cleanup(j, unlinked)
    \/ \E corrupt \in w.corrupt : PE_open(j, corrupt, w)
    \/ PE_save_ok(j)
    \/ PE_save_fail(j, w)
    \/ PE_rename_ok(j)
    \/ PE_rename_fail(j)
    \/ Convert_ok(j)
    \/ \E partial \in w.partial : Convert_fail(j, partial, w)
    \/ Unlink_ok(j)
    \/ Unlink_fail(j, w)

\* one download, with every answer of the site, the recognizer and the
\* converter
Next ==
    \/ \E text \in EntryTexts : DownloadUrl(text, 1)
    \/ DismissDialog
    \/ \E f \in Formats : SelectFormat(f)
    \/ TogglePlaylist
    \/ RunCallback
    \/ Worker(1, World)

Spec == Init /\ [][Next]_vars

\* MaxJobs downloads of well-formed URLs running concurrently
NextConc ==
    \/ \E text \in UrlTexts : DownloadUrl(text, MaxJobs)
    \/ \E f \in Formats : SelectFormat(f)
    \/ TogglePlaylist
    \/ \E j \in Jobs : Worker(j, QuietWorld)

SpecConc == Init /\ [][NextConc]_vars

(***************************************************************************)
(* The title cleaning and the file name, on their own.                     *)
(***************************************************************************)
\* app.py:350-358, for the entry whose "uploader" and "title" are in meta
PE_title ==
    /\ meta # NoMeta
    /\ cleanings = 0
    /\ uploader' = Slashless(meta.uploader)
    /\ raw_title' = Slashless(meta.title)
    /\ title' = clean_title(uploader', raw_title')
    /\ cleanings' = 1
    /\ UNCHANGED <<jobVars, meta, nameVars>>

\* app.py:352-358 once more, with the cleaned title as raw_title
PE_title_again ==
    /\ cleanings \in 1..(MaxCleanings - 1)
    /\ title' = clean_title(uploader, title)
    /\ cleanings' = cleanings + 1
    /\ UNCHANGED <<jobVars, meta, uploader, raw_title, nameVars>>

InitTitle ==
    /\ InitJobs
    /\ meta \in [uploader : EntryUploaders, title : EntryTitles]
    /\ uploader = <<>>
    /\ raw_title = <<>>
    /\ title = <<>>
    /\ cleanings = 0
    /\ NoName

NextTitle ==
    \/ PE_title
    \/ PE_title_again

\* the title cleaning applied to every entry title, MaxCleanings times
SpecTitle == InitTitle /\ [][NextTitle]_vars

\* app.py:455-459, for a recognized artist and song_title
PE_name ==
    /\ artist # <<>>
    /\ new_name = <<>>
    /\ new_name' = NewName(artist, song_title)
    /\ UNCHANGED <<jobVars, titleVars, artist, song_title>>

InitName ==
    /\ InitJobs
    /\ NoTitle
    /\ artist \in Artists
    /\ song_title \in SongTitles
    /\ new_name = <<>>

NextName == PE_name

\* the file name of every artist and track title
SpecName == InitName /\ [][NextName]_vars

(***************************************************************************)
(* Properties.                                                             *)
(***************************************************************************)
\* job j calls finish_bar in this step
Finishes(j) == Len(outcome[j])' = Len(outcome[j]) + 1
\* the call it makes
Reported(j) == outcome[j]'[Len(outcome[j]')]
\* the thread of job j exists
Created(j) == pc[j] # "unborn"
\* files named after a recognized track
TrackFiles(d) == {p \in DOMAIN d : p.stem \in Tracks}

\* C1: the progress values one job reports never decrease, and the value
\* reported last is 100 once the job has its terminal outcome.
C1_ProgressMonotone ==
    /\ [][\A j \in Jobs : progress[j]' >= progress[j]]_vars
    /\ [](\A j \in Jobs : outcome[j] # <<>> => progress[j] = 100)

\* C2: a job never has two terminal outcomes, and a job whose thread has
\* ended has exactly one.
C2_ExactlyOneOutcome ==
    \A j \in Jobs :
        /\ Len(outcome[j]) <= 1
        /\ pc[j] \in {"done", "crashed"} => Len(outcome[j]) = 1

\* C3 (its isolation part): when job j reports its outcome, the bar style and
\* the active_downloads entry of every other job k stay as they were.
C3_Isolation ==
    [][\A j \in Jobs : \A k \in Jobs \ {j} :
          (Finishes(j) /\ Created(k)) =>
              /\ styles'[row[k]] = styles[row[k]]
              /\ active_downloads'[get_url_id(url[k])] =
                     active_downloads[get_url_id(url[k])]]_vars

\* C4: when a job terminates with an outcome, no file is left under a
\* pre-rename name <id>.m4a, no m4a is left beside a conversion, and there is
\* at most one output file per entry.
C4_NoIntermediateLeft ==
    [][\A j \in Jobs :
          (pc[j] # "done" /\ pc[j]' = "done") =>
              /\ \A p \in DOMAIN disk' : ~(p.stem \in EntryIds /\ p.ext = "m4a")
              /\ selected_format[j] # "m4a" =>
                     \A p \in TrackFiles(disk') : p.ext # "m4a"
              /\ Cardinality(TrackFiles(disk')) <= Len(entries[j])]_vars

\* C5: when recognition of an entry ended without a track, the job's next
\* step ends it Failed with a message labelled as a recognition error, and
\* neither saves tags nor renames the file.
C5_NoMatchFails ==
    [][\A j \in Jobs :
          (pc[j] = "pe_open" /\ result[j] \in {NoResult, EmptyTrack}
                             /\ pc[j]' # "pe_open") =>
              /\ pc[j]' = "done"
              /\ Finishes(j)
              /\ ~Reported(j).success
              /\ Reported(j).error_msg[1] = "Recognition Error"
              /\ disk' = disk
              /\ Exists(disk, downloaded_path(j)) =>
                     disk[downloaded_path(j)] # "tagged"]_vars

\* C6: a job that ends after the rename of its last entry failed (the tagged
\* file is still at its pre-rename path) reports success with that path's
\* base name.
C6_RenameFailureReported ==
    [][\A j \in Jobs :
          (pc[j] = "loop" /\ pc[j]' = "done" /\ entries[j] # <<>>) =>
              LET last == DownloadedPath(url_local[j], entries[j][Len(entries[j])])
              IN  (Exists(disk, last) /\ disk[last] = "tagged") =>
                      /\ Reported(j).success
                      /\ Reported(j).filename = last.stem]_vars

\* C7: a success outcome carries the base name of the output of the last
\* processed entry, and that output exists on disk.
C7_SuccessNamesLastOutput ==
    [][\A j \in Jobs :
          (Finishes(j) /\ Reported(j).success) =>
              /\ Reported(j).filename # None
              /\ result_path[j] # NoPath
              /\ Reported(j).filename = result_path[j].stem
              /\ \E p \in DOMAIN disk' :
                     p.stem = Reported(j).filename /\ p.ext = selected_format[j]]_vars

\* C8: a job that ends in its conversion step ends Failed with a Convert
\* Error, with the source m4a still on disk and nothing at the destination.
C8_ConvertFailureLeavesSource ==
    [][\A j \in Jobs :
          (pc[j] \in {"convert", "unlink"} /\ pc[j]' = "done") =>
              /\ Finishes(j)
              /\ ~Reported(j).success
              /\ Reported(j).error_msg[1] = "Convert Error"
              /\ Exists(disk', result_path[j])
              /\ ~Exists(disk', ConvertedPath(result_path[j], selected_format[j]))]_vars

\* C9: when extract_info ends without delivering an info, the job ends with
\* the single outcome Failed, "Download Error".
C9_FetchFailureIsDownloadError ==
    [][\A j \in Jobs :
          (pc[j] = "fetch" /\ pc[j]' \notin {"fetch", "loop"}) =>
              /\ pc[j]' = "done"
              /\ Len(outcome[j]') = 1
              /\ ~Reported(j).success
              /\ Reported(j).error_msg[1] = "Download Error"]_vars

\* C10: a text that is empty or does not match the pattern never becomes a
\* job: every thread and every map entry belongs to a URL that matches, and
\* the step that shows the "Input Error" box changes nothing else.
C10_RejectedSynchronously ==
    /\ [](\A j \in Jobs :
             Created(j) <=> (url[j] # <<>> /\ UrlPatternMatch(url[j])))
    /\ [](DOMAIN active_downloads = {get_url_id(url[j]) : j \in {k \in Jobs : Created(k)}})
    /\ [](nJobs = Cardinality({j \in Jobs : Created(j)}))
    /\ [][(dialog = "none" /\ dialog' = "Input Error") =>
              UNCHANGED <<format_var, allow_playlist, active_downloads, styles,
                          nJobs, url, row, pc, locals, progress, outcome,
                          disk>>]_vars

\* a text is rejected while a job is fetching
C10_Witness ==
    /\ dialog = "Input Error"
    /\ nJobs = 1
    /\ pc[1] = "fetch"

\* C11: cleaning a cleaned title again, with the same uploader, gives the
\* same title.
C11_CleaningIdempotent ==
    [][(cleanings >= 1 /\ cleanings' = cleanings + 1) => title' = title]_vars

\* the parentheses of s that are opened and not closed
RECURSIVE OpenLeft(_, _)
OpenLeft(s, depth) ==
    IF s = <<>> THEN depth
    ELSE OpenLeft(Tail(s), IF Head(s) = "(" THEN depth + 1
                           ELSE IF Head(s) = ")" /\ depth > 0 THEN depth - 1
                           ELSE depth)

\* C12: the file name is "<artist> - <title>.m4a" with every "/" replaced by
\* "_", and a ")" appended to the title exactly when the title has an opening
\* parenthesis that is not closed.
C12_NameBalanced ==
    new_name # <<>> =>
        LET a == [i \in 1..Len(artist) |->
                     IF artist[i] = "/" THEN "_" ELSE artist[i]]
            t == [i \in 1..Len(song_title) |->
                     IF song_title[i] = "/" THEN "_" ELSE song_title[i]]
        IN  new_name = a \o <<" ", "-", " ">> \o t
                         \o (IF OpenLeft(t, 0) > 0 THEN <<")">> ELSE <<>>)
                         \o <<".", "m", "4", "a">>

\* the pipeline stage a position of job belongs to
Recognizing == {"pe_encode", "pe_recognize", "pe_cleanup"}
Tagging == {"pe_open", "pe_save", "pe_rename"}
Converting == {"convert", "unlink"}
\* job j has finished the conversion of an entry (app.py:314 has run)
HasConverted(j) == selected_format[j] # "m4a" /\ final_filename[j] # None

\* C13 (its ordering part): once a job has run its Converting stage, it runs
\* no Recognizing and no Tagging stage any more.
C13_NothingAfterConverting ==
    \A j \in Jobs : HasConverted(j) => pc[j] \notin Recognizing \cup Tagging

\* C14: when the recognition step of an entry ends, the file <id>.temp.mp3
\* of that entry does not exist, and no such file exists once the job is done.
C14_TempRemoved ==
    /\ [][\A j \in Jobs :
            (pc[j] = "pe_cleanup" /\ pc[j]' # "pe_cleanup") =>
                ~Exists(disk', temp_mp3_path(j))]_vars
    /\ []((\A j \in Jobs : pc[j] \in {"unborn", "done"}) =>
              \A p \in DOMAIN disk : p.ext # "temp.mp3")

\* C15: when a job fails at an entry, the output of the entry it finished
\* before (final_filename, in the format selected) is on disk as it was
\* produced: tagged, and converted when a conversion was asked for.
C15_EarlierOutputsKept ==
    [][\A j \in Jobs :
          (Finishes(j) /\ ~Reported(j).success /\ final_filename[j] # None) =>
              LET out == [dir |-> OutDir(url_local[j]),
                          stem |-> final_filename[j],
                          ext |-> selected_format[j]]
              IN  /\ Exists(disk', out)
                  /\ disk'[out] = IF selected_format[j] = "m4a" THEN "tagged"
                                  ELSE "converted"]_vars

\* the raw downloads and the temporary mp3s of the entries of job k
Artifacts(k) ==
    UNION {{DownloadedPath(url_local[k], entries[k][i]),
            TempPath(DownloadedPath(url_local[k], entries[k][i]))} :
               i \in 1..Len(entries[k])}
\* path p is the same in d1 and d2
SameFile(d1, d2, p) ==
    /\ Exists(d1, p) <=> Exists(d2, p)
    /\ Exists(d1, p) => d1[p] = d2[p]

\* C16: a step of job j leaves every raw download and every temporary mp3 of
\* another job k, which is processing its entries, as it is.
C16_ArtifactsPrivate ==
    [][\A j \in Jobs : \A k \in Jobs \ {j} :
          (pc[j]' # pc[j] /\ pc[k]' = pc[k]) =>
              \A p \in Artifacts(k) : SameFile(disk, disk', p)]_vars

\* C17: the active_downloads map and the ttk styles change only in a step of
\* the UI thread, that is, in download_url.
C17_OnlyUiThreadWrites ==
    [][(active_downloads' # active_downloads \/ styles' # styles) =>
          nJobs' # nJobs]_vars

\* C18: once job j has its outcome on screen, the only progress callback of
\* j that still changes its bar is the 100 of finish_bar itself: no value
\* the job reported earlier is shown after the outcome.
C18_NothingShownAfterOutcome ==
    [][\A j \in Jobs :
          (outcome[j] # <<>> /\ bar[j]' # bar[j]) => bar[j]' = 100]_vars

\* C19: the job fetches the URL that the playlist flag of its submission
\* gives, and converts to the format selected at its submission.
C19_UsesSubmittedSelections ==
    [][\A j \in Jobs :
          /\ (pc[j] = "start" /\ pc[j]' = "setup") =>
                 url_local[j]' = IF ~submitted[j].playlist
                                 THEN SplitFirst(url[j], ListSep)
                                 ELSE url[j]
          /\ (pc[j] = "setup" /\ pc[j]' = "fetch") =>
                 selected_format[j]' = submitted[j].format]_vars

=============================================================================
